---- MODULE Spec2Model ----
(***************************************************************************)
(* dtfabric data type definitions (src/dtfabric/data_types.py).            *)
(*                                                                         *)
(* Python values are tagged records, so that None, 0, [] and False stay    *)
(* distinct and Python's truthiness can be computed as the interpreter     *)
(* computes it.  StructureDefinition objects are mutable and shared by     *)
(* reference: they live in the heap `structs` and are referred to by id.   *)
(* Every other definition object is a record of the attributes that the    *)
(* three capability methods read (name, size, units, ...); the metadata    *)
(* that no method reads (aliases, description, urls, byte_order) is left   *)
(* out.                                                                    *)
(***************************************************************************)
EXTENDS Integers, Sequences, FiniteSets, TLC

VARIABLES
  structs,          \* heap of StructureDefinition objects, by id
  grown,            \* history: the structures that got a member while another structure held them
  obj,              \* the non-structure definition object the loader is wiring
  values,           \* EnumerationDefinition.values
  values_per_name,  \* EnumerationDefinition.values_per_name
  call              \* the call that has just returned: operation, receiver, result

vars == <<structs, grown, obj, values, values_per_name, call>>

----------------------------------------------------------------------------
(* Bounds of the model *)

\* total number of members added over all structures
MaxMembers == 3
\* sizes a loader assigns: 0..MaxSize
MaxSize == 4
\* element counts a loader assigns: 0..MaxCount
MaxCount == 3

----------------------------------------------------------------------------
(* Python values *)

None == [kind |-> "NoneType"]
PyInt(n) == [kind |-> "int", v |-> n]
PyBool(b) == [kind |-> "bool", v |-> b]
PyStr(s) == [kind |-> "str", v |-> s]
PyList(s) == [kind |-> "list", v |-> s]

\* bool(x): None, 0, False, '' and [] are false, any other object is true
Truthy(x) ==
  CASE x.kind = "NoneType" -> FALSE
    [] x.kind = "int" -> x.v # 0
    [] x.kind = "bool" -> x.v
    [] x.kind = "str" -> x.v # ""
    [] x.kind = "list" -> x.v # <<>>
    [] OTHER -> TRUE

\* x and y
PyAnd(x, y) == IF Truthy(x) THEN y ELSE x

----------------------------------------------------------------------------
(* Constructors: the attributes each __init__ sets *)

UUIDSize == 16

FixedSizeDataTypeDefinition(cls, name) ==
  [kind |-> cls, name |-> name, size |-> None, units |-> "bytes"]

BooleanDefinition(name) == FixedSizeDataTypeDefinition("BooleanDefinition", name)
CharacterDefinition(name) == FixedSizeDataTypeDefinition("CharacterDefinition", name)
FloatingPointDefinition(name) == FixedSizeDataTypeDefinition("FloatingPointDefinition", name)
IntegerDefinition(name) == FixedSizeDataTypeDefinition("IntegerDefinition", name)
EnumerationDefinition(name) == FixedSizeDataTypeDefinition("EnumerationDefinition", name)
UUIDDefinition(name) ==
  [FixedSizeDataTypeDefinition("UUIDDefinition", name) EXCEPT !.size = PyInt(UUIDSize)]

ConstantDefinition(name) == [kind |-> "ConstantDefinition", name |-> name, value |-> None]

FormatDefinition(name) == [kind |-> "FormatDefinition", name |-> name]

ElementSequenceDataTypeDefinition(cls, name, data_type_definition) ==
  [kind |-> cls, name |-> name,
   elements_data_size |-> None,
   elements_data_size_expression |-> None,
   element_data_type_definition |-> data_type_definition,
   number_of_elements |-> None,
   number_of_elements_expression |-> None]

SequenceDefinition(name, dtd) == ElementSequenceDataTypeDefinition("SequenceDefinition", name, dtd)
StreamDefinition(name, dtd) == ElementSequenceDataTypeDefinition("StreamDefinition", name, dtd)
StringDefinition(name, dtd) == ElementSequenceDataTypeDefinition("StringDefinition", name, dtd)

StructureMemberDefinition(name, data_type_definition) ==
  [kind |-> "StructureMemberDefinition", name |-> name,
   member_data_type_definition |-> data_type_definition]

\* a StructureDefinition object as __init__ leaves it
StructureDefinition(name) ==
  [name |-> name, _attribute_names |-> None, _byte_size |-> None, members |-> <<>>]

\* a reference to the StructureDefinition object with id i
StructRef(i) == [kind |-> "StructureDefinition", id |-> i]

FixedSizeKinds ==
  {"BooleanDefinition", "CharacterDefinition", "FloatingPointDefinition",
   "IntegerDefinition", "EnumerationDefinition", "UUIDDefinition"}

ElementSequenceKinds == {"SequenceDefinition", "StreamDefinition", "StringDefinition"}

----------------------------------------------------------------------------
(* The structures of the heap and the members the loader adds to them *)

StructIds == {1, 2, 3}

StructName(i) == <<"point", "box", "header">>[i]

UInt32 == [IntegerDefinition("uint32") EXCEPT !.size = PyInt(4)]
Byte == [IntegerDefinition("byte") EXCEPT !.size = PyInt(1)]

\* a stream whose length is an expression: no literal count, no literal size
TailStream ==
  [StreamDefinition("data", Byte) EXCEPT !.number_of_elements_expression = PyStr("header.size")]

LeafMembers ==
  { StructureMemberDefinition("magic", UInt32),
    StructureMemberDefinition("tail", TailStream) }

\* structure s may hold the structures built before it (the graph stays acyclic)
MemberPool(s) ==
  LeafMembers \cup { StructureMemberDefinition(StructName(t), StructRef(t)) : t \in 1..(s - 1) }

----------------------------------------------------------------------------
(* GetByteSize.  A call may fill the caches of the structures it visits,   *)
(* so every method takes the heap and returns [ret, heap].                 *)

RECURSIVE GetByteSize(_, _), ByteSizeLoop(_, _, _)

\* a slip: the units are not looked at
FixedSizeGetByteSize_IgnoreUnits(d) == d.size

\* FixedSizeDataTypeDefinition.GetByteSize: falls off the end (None) unless units is bytes
FixedSizeGetByteSize(d) == IF d.units = "bytes" THEN d.size ELSE None

\* a different method: a set expression switches the literal of the same kind off
ElementSequenceGetByteSize_ExpressionsFirst(d, h) ==
  IF Truthy(d.element_data_type_definition)
  THEN IF Truthy(d.elements_data_size) /\ d.elements_data_size_expression = None
       THEN [ret |-> d.elements_data_size, heap |-> h]
       ELSE IF Truthy(d.number_of_elements) /\ d.number_of_elements_expression = None
            THEN LET e == GetByteSize(d.element_data_type_definition, h)
                 IN IF Truthy(e.ret)
                    THEN [ret |-> PyInt(e.ret.v * d.number_of_elements.v), heap |-> e.heap]
                    ELSE [ret |-> None, heap |-> e.heap]
            ELSE [ret |-> None, heap |-> h]
  ELSE [ret |-> None, heap |-> h]

\* ElementSequenceDataTypeDefinition.GetByteSize: every test is a truth test
ElementSequenceGetByteSize(d, h) ==
  IF Truthy(d.element_data_type_definition)
  THEN IF Truthy(d.elements_data_size)
       THEN [ret |-> d.elements_data_size, heap |-> h]
       ELSE IF Truthy(d.number_of_elements)
            THEN LET e == GetByteSize(d.element_data_type_definition, h)
                 IN IF Truthy(e.ret)
                    THEN [ret |-> PyInt(e.ret.v * d.number_of_elements.v), heap |-> e.heap]
                    ELSE [ret |-> None, heap |-> e.heap]
            ELSE [ret |-> None, heap |-> h]
  ELSE [ret |-> None, heap |-> h]

\* the loop's exit on a member of undetermined size: the partial sum is dropped
ByteSizeLoopBreak(s, h) == [h EXCEPT ![s]._byte_size = None]

\* for member_definition in self.members, from member i on; h[s]._byte_size is the running sum
ByteSizeLoop(s, i, h) ==
  IF i > Len(h[s].members)
  THEN h
  ELSE LET m == GetByteSize(h[s].members[i], h)
       IN IF m.ret = None
          THEN ByteSizeLoopBreak(s, m.heap)
          ELSE ByteSizeLoop(s, i + 1,
                 [m.heap EXCEPT ![s]._byte_size = PyInt(@.v + m.ret.v)])

\* StructureDefinition.GetByteSize: computes when nothing is memoized and there are members
StructureGetByteSize(s, h) ==
  LET h2 == IF h[s]._byte_size = None /\ Truthy(PyList(h[s].members))
            THEN ByteSizeLoop(s, 1, [h EXCEPT ![s]._byte_size = PyInt(0)])
            ELSE h
  IN [ret |-> h2[s]._byte_size, heap |-> h2]

\* StructureMemberDefinition.GetByteSize: delegates, or falls off the end (None)
StructureMemberGetByteSize(d, h) ==
  IF Truthy(d.member_data_type_definition)
  THEN GetByteSize(d.member_data_type_definition, h)
  ELSE [ret |-> None, heap |-> h]

\* method dispatch on the receiver's class
GetByteSize(d, h) ==
  CASE d.kind \in FixedSizeKinds -> [ret |-> FixedSizeGetByteSize(d), heap |-> h]
    [] d.kind = "ConstantDefinition" -> [ret |-> None, heap |-> h]
    [] d.kind = "FormatDefinition" -> [ret |-> None, heap |-> h]
    [] d.kind \in ElementSequenceKinds -> ElementSequenceGetByteSize(d, h)
    [] d.kind = "StructureDefinition" -> StructureGetByteSize(d.id, h)
    [] d.kind = "StructureMemberDefinition" -> StructureMemberGetByteSize(d, h)

----------------------------------------------------------------------------
(* GetAttributeNames *)

RECURSIVE GetAttributeNames(_, _)

\* StructureDefinition.GetAttributeNames: the member names, memoized
StructureGetAttributeNames(s, h) ==
  LET h2 == IF h[s]._attribute_names = None
            THEN [h EXCEPT ![s]._attribute_names =
                    PyList([i \in 1..Len(h[s].members) |-> h[s].members[i].name])]
            ELSE h
  IN [ret |-> h2[s]._attribute_names, heap |-> h2]

\* StructureMemberDefinition.GetAttributeNames: delegates, or falls off the end (None)
StructureMemberGetAttributeNames(d, h) ==
  IF Truthy(d.member_data_type_definition)
  THEN GetAttributeNames(d.member_data_type_definition, h)
  ELSE [ret |-> None, heap |-> h]

GetAttributeNames(d, h) ==
  CASE d.kind \in FixedSizeKinds -> [ret |-> PyList(<<"value">>), heap |-> h]
    [] d.kind = "ConstantDefinition" -> [ret |-> PyList(<<"constant">>), heap |-> h]
    [] d.kind = "FormatDefinition" -> [ret |-> PyList(<<>>), heap |-> h]
    [] d.kind = "SequenceDefinition" -> [ret |-> PyList(<<"elements">>), heap |-> h]
    [] d.kind = "StreamDefinition" -> [ret |-> PyList(<<"stream">>), heap |-> h]
    [] d.kind = "StringDefinition" -> [ret |-> PyList(<<"string">>), heap |-> h]
    [] d.kind = "StructureDefinition" -> StructureGetAttributeNames(d.id, h)
    [] d.kind = "StructureMemberDefinition" -> StructureMemberGetAttributeNames(d, h)

----------------------------------------------------------------------------
(* IsComposite *)

RECURSIVE IsComposite(_)

\* the class attribute _IS_COMPOSITE
IS_COMPOSITE(cls) ==
  cls \in {"FormatDefinition", "SequenceDefinition", "StreamDefinition",
           "StringDefinition", "StructureDefinition", "UUIDDefinition"}

\* a slip: the member does not delegate and answers with the base class attribute
StructureMemberIsComposite_NoDelegation(d) == PyBool(IS_COMPOSITE(d.kind))

\* StructureMemberDefinition.IsComposite: `definition and definition.IsComposite()`
StructureMemberIsComposite(d) ==
  PyAnd(d.member_data_type_definition, IsComposite(d.member_data_type_definition))

IsComposite(d) ==
  IF d.kind = "StructureMemberDefinition"
  THEN StructureMemberIsComposite(d)
  ELSE PyBool(IS_COMPOSITE(d.kind))

----------------------------------------------------------------------------
(* StructureDefinition.AddMemberDefinition: both caches are dropped, then the append *)

\* a slip: the append without the invalidation
AddMemberDefinition_KeepCaches(h, s, member_definition) ==
  [h EXCEPT ![s].members = Append(@, member_definition)]

AddMemberDefinition(h, s, member_definition) ==
  [h EXCEPT ![s] = [@ EXCEPT !._attribute_names = None,
                             !._byte_size = None,
                             !.members = Append(@, member_definition)]]

----------------------------------------------------------------------------
(* The state after construction *)

NoCall == [op |-> "none"]

Init ==
  /\ structs = [i \in StructIds |-> StructureDefinition(StructName(i))]
  /\ grown = {}
  /\ obj = None
  /\ values = <<>>
  /\ values_per_name = <<>>
  /\ call = NoCall

----------------------------------------------------------------------------
(* Structures: the loader adds members, the mapper queries *)

RECURSIVE SumLen(_, _)
SumLen(h, ids) ==
  IF ids = {} THEN 0
  ELSE LET i == CHOOSE x \in ids : TRUE IN Len(h[i].members) + SumLen(h, ids \ {i})

TotalMembers == SumLen(structs, StructIds)

\* the structures that the members of structure s wrap
Wrapped(s, h) ==
  {t \in StructIds : \E i \in 1..Len(h[s].members) :
     h[s].members[i].member_data_type_definition = StructRef(t)}

CallAddMemberDefinition(s, m) ==
  /\ TotalMembers < MaxMembers
  /\ structs' = AddMemberDefinition(structs, s, m)
  /\ grown' = IF \E u \in StructIds : s \in Wrapped(u, structs) THEN grown \cup {s} ELSE grown
  /\ call' = [op |-> "AddMemberDefinition", self |-> StructRef(s), ret |-> None,
               dropped |-> structs[s]._attribute_names # None \/ structs[s]._byte_size # None]
  /\ UNCHANGED <<obj, values, values_per_name>>

\* the call that has just returned added a member to s and dropped a computed cache of s
Invalidated(s) ==
  call.op = "AddMemberDefinition" /\ call.self = StructRef(s) /\ call.dropped

CallGetByteSize(s) ==
  LET r == GetByteSize(StructRef(s), structs)
  IN /\ structs' = r.heap
     /\ call' = [op |-> "GetByteSize", self |-> StructRef(s), ret |-> r.ret,
                 memo |-> structs[s]._byte_size, requery |-> Invalidated(s)]
     /\ UNCHANGED <<grown, obj, values, values_per_name>>

CallGetAttributeNames(s) ==
  LET r == GetAttributeNames(StructRef(s), structs)
  IN /\ structs' = r.heap
     /\ call' = [op |-> "GetAttributeNames", self |-> StructRef(s), ret |-> r.ret,
                 memo |-> structs[s]._attribute_names, requery |-> Invalidated(s)]
     /\ UNCHANGED <<grown, obj, values, values_per_name>>

Next ==
  \/ \E s \in StructIds : \E m \in MemberPool(s) : CallAddMemberDefinition(s, m)
  \/ \E s \in StructIds : CallGetByteSize(s)
  \/ \E s \in StructIds : CallGetAttributeNames(s)

Spec == Init /\ [][Next]_vars

----------------------------------------------------------------------------
(* Enumerations: the registry of one EnumerationDefinition *)

EnumerationValue(name, value) == [name |-> name, value |-> value]

\* self.values_per_name[name] = enumeration_value
DictSet(d, k, x) == [n \in DOMAIN d \cup {k} |-> IF n = k THEN x ELSE d[n]]

\* a slip: no test for an existing name
AddValue_NoDuplicateTest(vals, per_name, name, value) ==
  [raised |-> "",
   values |-> Append(vals, EnumerationValue(name, value)),
   values_per_name |-> DictSet(per_name, name, EnumerationValue(name, value))]

\* a slip: the value is appended and the name index is not updated
AddValue_NoIndexUpdate(vals, per_name, name, value) ==
  IF name \in DOMAIN per_name
  THEN [raised |-> "KeyError", values |-> vals, values_per_name |-> per_name]
  ELSE [raised |-> "",
        values |-> Append(vals, EnumerationValue(name, value)),
        values_per_name |-> per_name]

\* EnumerationDefinition.AddValue on the registry (vals, per_name): what is raised, and the registry after
AddValue(vals, per_name, name, value) ==
  IF name \in DOMAIN per_name
  THEN [raised |-> "KeyError", values |-> vals, values_per_name |-> per_name]
  ELSE [raised |-> "",
        values |-> Append(vals, EnumerationValue(name, value)),
        values_per_name |-> DictSet(per_name, name, EnumerationValue(name, value))]

ValueNames == {"RED", "GREEN", "BLUE"}
ValueNumbers == {0, 1}

CallAddValue(name, value) ==
  LET r == AddValue(values, values_per_name, name, value)
  IN /\ values' = r.values
     /\ values_per_name' = r.values_per_name
     /\ call' = [op |-> "AddValue", name |-> name, value |-> value, raised |-> r.raised,
                 before |-> [values |-> values, values_per_name |-> values_per_name]]
     /\ UNCHANGED <<structs, grown, obj>>

NextEnumeration == \E name \in ValueNames : \E value \in ValueNumbers : CallAddValue(name, value)

SpecEnumeration == Init /\ [][NextEnumeration]_vars

----------------------------------------------------------------------------
(* One definition object: the loader constructs it and assigns its         *)
(* attributes, the mapper queries it.                                      *)

SizeValues == {None} \cup {PyInt(n) : n \in 0..MaxSize}
CountValues == {None} \cup {PyInt(n) : n \in 0..MaxCount}
ExpressionValues == {None, PyStr("header.size")}
UnitsValues == {"bytes", "bits"}

\* element definitions: none, or an integer of any assigned size
ElementPool == {None} \cup {[IntegerDefinition("element") EXCEPT !.size = v] : v \in SizeValues}

\* what a structure member wraps: nothing, a leaf, a composite
WrappedPool ==
  {None, UInt32, ConstantDefinition("version"), UUIDDefinition("uuid"), TailStream,
   FormatDefinition("format"), StructRef(1)}

Constructed ==
  {BooleanDefinition("bool"), CharacterDefinition("char"), FloatingPointDefinition("float"),
   IntegerDefinition("int"), EnumerationDefinition("enum"), UUIDDefinition("uuid"),
   ConstantDefinition("const"), FormatDefinition("format"), StructRef(1)}
  \cup {SequenceDefinition("sequence", e) : e \in ElementPool}
  \cup {StreamDefinition("stream", e) : e \in ElementPool}
  \cup {StringDefinition("string", e) : e \in ElementPool}
  \cup {StructureMemberDefinition("member", w) : w \in WrappedPool}

\* a constructor call: obj is the new object. A StructureDefinition is an object of the
\* heap: the new one has no members and no computed caches, and takes the place of the
\* one obj referred to before.
Construct(d) ==
  /\ obj' = d
  /\ structs' = IF d.kind = "StructureDefinition"
                THEN [structs EXCEPT ![d.id] = StructureDefinition(StructName(d.id))]
                ELSE structs
  /\ call' = NoCall
  /\ UNCHANGED <<grown, values, values_per_name>>

Assign(d) ==
  /\ obj' = d
  /\ call' = NoCall
  /\ UNCHANGED <<structs, grown, values, values_per_name>>

SetSize(v) == obj.kind \in FixedSizeKinds /\ Assign([obj EXCEPT !.size = v])
SetUnits(u) == obj.kind \in FixedSizeKinds /\ Assign([obj EXCEPT !.units = u])
SetElementsDataSize(v) ==
  obj.kind \in ElementSequenceKinds /\ Assign([obj EXCEPT !.elements_data_size = v])
SetElementsDataSizeExpression(e) ==
  obj.kind \in ElementSequenceKinds /\ Assign([obj EXCEPT !.elements_data_size_expression = e])
SetNumberOfElements(v) ==
  obj.kind \in ElementSequenceKinds /\ Assign([obj EXCEPT !.number_of_elements = v])
SetNumberOfElementsExpression(e) ==
  obj.kind \in ElementSequenceKinds /\ Assign([obj EXCEPT !.number_of_elements_expression = e])

ObjGetByteSize ==
  /\ obj # None
  /\ LET r == GetByteSize(obj, structs)
     IN /\ structs' = r.heap
        /\ call' = [op |-> "GetByteSize", self |-> obj, ret |-> r.ret]
  /\ UNCHANGED <<grown, obj, values, values_per_name>>

ObjGetAttributeNames ==
  /\ obj # None
  /\ LET r == GetAttributeNames(obj, structs)
     IN /\ structs' = r.heap
        /\ call' = [op |-> "GetAttributeNames", self |-> obj, ret |-> r.ret]
  /\ UNCHANGED <<grown, obj, values, values_per_name>>

ObjIsComposite ==
  /\ obj # None
  /\ call' = [op |-> "IsComposite", self |-> obj, ret |-> IsComposite(obj)]
  /\ UNCHANGED <<structs, grown, obj, values, values_per_name>>

NextDefinition ==
  \/ \E d \in Constructed : Construct(d)
  \/ \E v \in SizeValues : SetSize(v)
  \/ \E u \in UnitsValues : SetUnits(u)
  \/ \E v \in SizeValues : SetElementsDataSize(v)
  \/ \E e \in ExpressionValues : SetElementsDataSizeExpression(e)
  \/ \E v \in CountValues : SetNumberOfElements(v)
  \/ \E e \in ExpressionValues : SetNumberOfElementsExpression(e)
  \/ ObjGetByteSize
  \/ ObjGetAttributeNames
  \/ ObjIsComposite

SpecDefinition == Init /\ [][NextDefinition]_vars

----------------------------------------------------------------------------
(* What the specification says of a structure's byte size *)

RECURSIVE SumOf(_, _)
SumOf(sizes, i) == IF i > Len(sizes) THEN 0 ELSE sizes[i].v + SumOf(sizes, i + 1)

\* the sum of s1..sn when all are determined; undetermined for no members or any undetermined
ExpectedByteSize(sizes) ==
  IF sizes = <<>> \/ \E i \in 1..Len(sizes) : sizes[i] = None
  THEN None
  ELSE PyInt(SumOf(sizes, 1))

\* the byte sizes the members of structure s report in heap h
MemberByteSizes(s, h) ==
  [i \in 1..Len(h[s].members) |-> GetByteSize(h[s].members[i], h).ret]

MemberNames(s, h) == [i \in 1..Len(h[s].members) |-> h[s].members[i].name]

Orderings(n) == {p \in [1..n -> 1..n] : \A i, j \in 1..n : p[i] = p[j] => i = j}

\* structure s with its members reordered by p and nothing memoized
Reordered(h, s, p) ==
  [h EXCEPT ![s] = [@ EXCEPT !._byte_size = None,
                             !.members = [i \in 1..Len(@) |-> @[p[i]]]]]

\* the structures nested in structure s, at any depth
RECURSIVE Nested(_, _)
Nested(s, h) == Wrapped(s, h) \cup UNION {Nested(t, h) : t \in Wrapped(s, h)}

\* the graph below structure s was built bottom-up: no structure nested in s got a
\* member after a structure held it
BuiltBottomUp(s) == Nested(s, structs) \cap grown = {}

\* the byte size of d recomputed from the graph as it is, with no memoized size anywhere
RecomputedByteSize(d, h) ==
  GetByteSize(d, [i \in StructIds |-> [h[i] EXCEPT !._byte_size = None]]).ret

----------------------------------------------------------------------------
(* Claims about structures, checked under Spec *)

\* C1: every GetByteSize() call on a structure returns the sum of the byte sizes its
\* members report when all of them are determined, and None when there are no members
\* or some member reports None (never zero, never a partial sum), at any nesting depth;
\* every reordering of the same members gives the same result.
C1_StructureByteSizeIsSum ==
  call.op = "GetByteSize" =>
    LET s == call.self.id
    IN /\ call.ret = ExpectedByteSize(MemberByteSizes(s, structs))
       /\ \A p \in Orderings(Len(structs[s].members)) :
            StructureGetByteSize(s, Reordered(structs, s, p)).ret = call.ret

\* C2: after any interleaving of AddMemberDefinition, GetAttributeNames and GetByteSize
\* calls on one structure (the structures nested in it do not change under it),
\* GetAttributeNames() returns the names of the current members in the order they were
\* added and GetByteSize() returns the value of the current member list; what is memoized
\* is never anything else, so a query after a later AddMemberDefinition shows the new member.
C2_QueriesReflectMembers ==
  /\ call.op = "GetAttributeNames" =>
       call.ret = PyList(MemberNames(call.self.id, structs))
  /\ (call.op = "GetByteSize" /\ BuiltBottomUp(call.self.id)) =>
       call.ret = ExpectedByteSize(MemberByteSizes(call.self.id, structs))
  /\ \A s \in StructIds :
       /\ structs[s]._attribute_names \in {None, PyList(MemberNames(s, structs))}
       /\ BuiltBottomUp(s) =>
            structs[s]._byte_size \in {None, ExpectedByteSize(MemberByteSizes(s, structs))}

\* a size query on a structure right after an AddMemberDefinition on it that dropped
\* its computed size; the structure nests another one
C2_Witness ==
  /\ call.op = "GetByteSize" /\ call.requery /\ call.memo = None
  /\ BuiltBottomUp(call.self.id)
  /\ Wrapped(call.self.id, structs) # {}
  /\ Len(structs[call.self.id].members) >= 2
  /\ call.ret # None

\* C9: every GetByteSize() call on a structure returns the size recomputed from the
\* graph as it is at the time of the call, also after a member was added to a nested
\* structure.
C9_OuterSizeIsCurrent ==
  call.op = "GetByteSize" => call.ret = RecomputedByteSize(call.self, structs)

----------------------------------------------------------------------------
(* Claims about the enumeration registry, checked under SpecEnumeration *)

\* C3: AddValue with a name already in the registry raises KeyError and leaves the values
\* list and the name index as they were; a name not in the registry is never rejected.
\* So after the same name was added twice the registry holds the first value only.
C3_DuplicateNameRejected ==
  call.op = "AddValue" =>
    /\ (call.raised = "KeyError") <=> (call.name \in DOMAIN call.before.values_per_name)
    /\ call.raised = "KeyError" =>
         /\ values = call.before.values
         /\ values_per_name = call.before.values_per_name

\* the same name added a second time, with another number: one value, the first
C3_Witness ==
  /\ call.op = "AddValue" /\ call.raised = "KeyError"
  /\ Len(values) = 1
  /\ values[1].name = call.name /\ values[1].value # call.value
  /\ values_per_name[call.name] = values[1]

----------------------------------------------------------------------------
(* Claims about one definition object, checked under SpecDefinition *)

ElementSequenceCall ==
  /\ call.op = "GetByteSize"
  /\ call.self.kind \in ElementSequenceKinds
  /\ call.self.element_data_type_definition # None

\* the byte size the element definition of the receiver reports
ElementByteSize == GetByteSize(call.self.element_data_type_definition, structs).ret

\* C4: an element sequence with an element definition and a literal elements_data_size
\* (any integer, zero included) reports exactly that literal.
C4_ExplicitSizeReturned ==
  (ElementSequenceCall /\ call.self.elements_data_size # None) =>
    call.ret = call.self.elements_data_size

\* C5: with no literal elements_data_size, a literal count n and a determined element
\* size s give n * s for every n and s (zero included); no literal count or an
\* undetermined element size gives None.
C5_CountTimesElementSize ==
  (ElementSequenceCall /\ call.self.elements_data_size = None) =>
    IF call.self.number_of_elements # None /\ ElementByteSize # None
    THEN call.ret = PyInt(call.self.number_of_elements.v * ElementByteSize.v)
    ELSE call.ret = None

CompositeVariants ==
  {"StructureDefinition", "FormatDefinition", "StringDefinition", "SequenceDefinition",
   "StreamDefinition", "UUIDDefinition"}

NonCompositeVariants ==
  {"BooleanDefinition", "CharacterDefinition", "IntegerDefinition",
   "FloatingPointDefinition", "ConstantDefinition", "EnumerationDefinition"}

\* C6: IsComposite() returns True for structure, format, string, sequence, stream and
\* UUID definitions and False for boolean, character, integer, floating-point, constant
\* and enumeration definitions; a structure member returns what the definition it wraps
\* returns, and a member that wraps nothing reports not composite (a false value).
C6_IsComposite ==
  call.op = "IsComposite" =>
    LET d == call.self
        w == d.member_data_type_definition
    IN /\ d.kind \in CompositeVariants => call.ret = PyBool(TRUE)
       /\ d.kind \in NonCompositeVariants => call.ret = PyBool(FALSE)
       /\ d.kind = "StructureMemberDefinition" =>
            /\ w = None => call.ret \in {None, PyBool(FALSE)}
            /\ (w # None /\ w.kind \in CompositeVariants) => call.ret = PyBool(TRUE)
            /\ (w # None /\ w.kind \in NonCompositeVariants) => call.ret = PyBool(FALSE)

\* a member that wraps a structure has answered True
C6_Witness ==
  /\ call.op = "IsComposite"
  /\ call.self.kind = "StructureMemberDefinition"
  /\ call.self.member_data_type_definition = StructRef(1)
  /\ call.ret = PyBool(TRUE)

\* C7: a fixed-size definition reports the size it was given when units is "bytes" and
\* None for any other units, whatever the size; a UUID definition as constructed reports 16.
C7_FixedSizeByteSize ==
  (call.op = "GetByteSize" /\ call.self.kind \in FixedSizeKinds) =>
    /\ call.self.units = "bytes" => call.ret = call.self.size
    /\ call.self.units # "bytes" => call.ret = None
    /\ call.self = UUIDDefinition("uuid") => call.ret = PyInt(16)

\* a UUID definition whose units were set to something else than bytes reports None
C7_Witness ==
  /\ call.op = "GetByteSize"
  /\ call.self.kind = "UUIDDefinition"
  /\ call.self.units = "bits" /\ call.self.size = PyInt(16)
  /\ call.ret = None

LeafAttributeName(cls) ==
  CASE cls \in FixedSizeKinds -> "value"
    [] cls = "ConstantDefinition" -> "constant"
    [] cls = "SequenceDefinition" -> "elements"
    [] cls = "StreamDefinition" -> "stream"
    [] cls = "StringDefinition" -> "string"

\* C8: GetAttributeNames() always returns a sequence of names: one name for a leaf
\* variant, the empty sequence for a format, the names of the wrapped definition for a
\* structure member, and the empty sequence, not None, for a member that wraps nothing
\* (whose GetByteSize() is None).
C8_AttributeNamesIsSequence ==
  /\ call.op = "GetAttributeNames" =>
       LET d == call.self
       IN /\ call.ret.kind = "list"
          /\ d.kind \in FixedSizeKinds \cup ElementSequenceKinds \cup {"ConstantDefinition"} =>
               call.ret = PyList(<<LeafAttributeName(d.kind)>>)
          /\ d.kind = "FormatDefinition" => call.ret = PyList(<<>>)
          /\ d.kind = "StructureMemberDefinition" =>
               IF d.member_data_type_definition = None
               THEN call.ret = PyList(<<>>)
               ELSE call.ret = GetAttributeNames(d.member_data_type_definition, structs).ret
  /\ (call.op = "GetByteSize" /\ call.self.kind = "StructureMemberDefinition"
        /\ call.self.member_data_type_definition = None) => call.ret = None

\* C10: a set expression switches the literal of the same kind off: with
\* number_of_elements_expression set and no literal elements_data_size the result is None
\* whatever number_of_elements holds, and with elements_data_size_expression set the
\* literal elements_data_size is not returned (the result is that of the count path).
C10_ExpressionDisablesLiteral ==
  ElementSequenceCall =>
    /\ (call.self.number_of_elements_expression # None
          /\ call.self.elements_data_size = None) => call.ret = None
    /\ call.self.elements_data_size_expression # None =>
         call.ret = GetByteSize([call.self EXCEPT !.elements_data_size = None], structs).ret

\* a literal that is set and not zero
NonZeroLiteral(x) == x # None /\ x # PyInt(0)

\* C10, as the code has it: expressions are neither evaluated nor looked at.  Also with
\* expressions set, a non-zero literal elements_data_size is returned as it is; failing
\* that, a non-zero literal number_of_elements times a non-zero determined element size;
\* and None when neither literal path applies.
C10_ExpressionsNotConsulted ==
  (ElementSequenceCall /\ (call.self.number_of_elements_expression # None
                             \/ call.self.elements_data_size_expression # None)) =>
    LET d == call.self
    IN IF NonZeroLiteral(d.elements_data_size)
       THEN call.ret = d.elements_data_size
       ELSE IF NonZeroLiteral(d.number_of_elements) /\ NonZeroLiteral(ElementByteSize)
            THEN call.ret = PyInt(d.number_of_elements.v * ElementByteSize.v)
            ELSE call.ret = None

\* a count expression and a literal count are both set: the product is returned
C10_Witness ==
  /\ ElementSequenceCall
  /\ call.self.number_of_elements_expression # None
  /\ call.self.elements_data_size = None
  /\ call.self.number_of_elements = PyInt(3)
  /\ ElementByteSize = PyInt(4)
  /\ call.ret = PyInt(12)

----------------------------------------------------------------------------
(* The registry invariant, checked under SpecEnumeration *)

\* vals is the list that before was, or that list with more values after it
ExtendsList(before, vals) ==
  /\ Len(vals) >= Len(before)
  /\ \A i \in 1..Len(before) : vals[i] = before[i]

\* C11: after any sequence of accepted and rejected AddValue calls the names in the
\* values list are pairwise distinct, the keys of the name index are exactly the names in
\* the list, and each index entry is the list element of that name; an accepted call
\* puts its value after all earlier ones (the list is in the order of the accepted
\* additions) and no call takes a value out of the list.
C11_RegistryInvariant ==
  /\ \A i, j \in 1..Len(values) : values[i].name = values[j].name => i = j
  /\ DOMAIN values_per_name = {values[i].name : i \in 1..Len(values)}
  /\ \A i \in 1..Len(values) : values_per_name[values[i].name] = values[i]
  /\ call.op = "AddValue" =>
       /\ ExtendsList(call.before.values, values)
       /\ call.raised = "" =>
            values = Append(call.before.values, EnumerationValue(call.name, call.value))

\* every name is in the registry, two of them with the same number, and a further
\* call has just been rejected
C11_Witness ==
  /\ call.op = "AddValue" /\ call.raised = "KeyError"
  /\ Len(values) = Cardinality(ValueNames)
  /\ \E i, j \in 1..Len(values) : i # j /\ values[i].value = values[j].value

====
